---- MODULE Spec2Model ----
(***************************************************************************)
(* VisualMem: the batch write buffer of the backend server                 *)
(* (src/gui_backend_server.py, class BatchWriteBuffer and the handlers     *)
(* that drive it) and the OCR dispatcher of the recording worker           *)
(* (src/gui/workers/record_worker.py, class RecordWorker).                 *)
(*                                                                         *)
(* Every thread of the program is a process with a program counter.  A     *)
(* `with self.buffer_lock:` block touches only the buffer and locals and   *)
(* never blocks inside, so it is one step: taken when the lock is free,    *)
(* leaving the lock as the end of the block leaves it.                     *)
(***************************************************************************)
EXTENDS Integers, Sequences, FiniteSets, TLC

(***************************************************************************)
(* Bounds of the model.  batch_size and flush_interval are constructor     *)
(* parameters (10 and 60.0 at gui_backend_server.py:328); the model runs   *)
(* the same code with small values.                                        *)
(***************************************************************************)
BatchSize == 2

FlushInterval == 2

MaxFrames == 3

(***************************************************************************)
(* The OCR queue is queue.Queue(maxsize=100) (record_worker.py:170); the    *)
(* model runs the same code with a small capacity and a bounded number of  *)
(* captured frames.                                                        *)
(***************************************************************************)
OcrQueueMax == 2

MaxCaptures == 4

(***************************************************************************)
(* Captured images are one grey-level pixel wide; the filter threshold     *)
(* (config.SIMPLE_FILTER_DIFF_THRESHOLD, a fraction of the largest pixel   *)
(* value) is counted in grey levels.                                       *)
(***************************************************************************)
MaxGray == 2

DiffThreshold == 2

(***************************************************************************)
(* store_frame caps the microsecond of an identifier at 999999 and prints  *)
(* it with six digits (gui_backend_server.py:519, 528); the model runs the *)
(* same code with a small cap and width, two seconds of wall-clock time    *)
(* and a bounded number of requests.                                       *)
(***************************************************************************)
MaxMicrosecond == 10

MicroWidth == 2

MaxSecond == 1

MaxStores == 3

(***************************************************************************)
(* Instants of the time windows of a query are 0..MaxTime.                 *)
(***************************************************************************)
MaxTime == 3

\* frame ids of the search hits are 1..MaxHitId
MaxHitId == 3

\* hits one search pass returns at most
MaxHits == 2

\* ------------------------------------------------------------------------
\* Threads of the backend server
\* ------------------------------------------------------------------------

\* request threads running store_frame -> add_frame
Adders == {"a1", "a2"}

\* the daemon thread started by BatchWriteBuffer.start
Ticker == "tk"

\* the request thread running stop_recording_api
ApiThread == "fl"

\* the thread running shutdown_event -> BatchWriteBuffer.stop
Stopper == "st"

Threads == Adders \cup {Ticker, ApiThread, Stopper}

\* the frames add_frame can be given, in the order they are accepted
Frames == 1..MaxFrames

NoThread == "free"

VARIABLES
    buffer,           \* self.buffer (deque), as a sequence of frames
    buffer_lock,      \* self.buffer_lock: the thread holding it, or NoThread
    elapsed,          \* time.time() - self.last_flush_time, saturating at FlushInterval
    stop_event,       \* self.stop_event
    pc,               \* position of every thread
    frames_to_write,  \* _flush_buffer's local list, per thread
    idx,              \* position of _flush_buffer's loop over frames_to_write, per thread
    nadded,           \* number of frames add_frame has appended so far
    taken,            \* per frame: number of flush batches it was placed in
    vec_log,          \* per frame: number of store_frames_batch calls that carried it
    sql_log,          \* per frame: number of store_frame_with_ocr calls for it
    vec_res,          \* per thread: outcome of the store_frames_batch call of its flush
    sql_raised,       \* per thread: a store_frame_with_ocr call of its flush raised
    frame_data,       \* per adder: the frame its add_frame call was given (0: not in a call)
    overlapped,       \* per adder: another add_frame call ran during its add_frame call
    history,          \* whether the two call snapshots below are kept in this behaviour
    stop_seen,        \* frames accepted when the running stop() was called (-1: none)
    api_seen          \* frames accepted when the running stop_recording_api began (-1: none)

VARIABLES
    use_ocr,             \* self.use_ocr
    running,             \* self.running
    ocr_thread_running,  \* self.ocr_thread_running (Event)
    ocr_queue,           \* self.ocr_queue: the queued tasks, as frame numbers
    unfinished_tasks,    \* self.ocr_queue.unfinished_tasks
    rec_pc,              \* position of the thread running start_recording
    ocr_pc,              \* position of the thread running _ocr_worker
    stop_pc,             \* position of the thread running stop_recording
    frame,               \* the frame of the current capture-loop iteration (0: none)
    task,                \* the task the OCR worker is processing (0: none)
    ncaptured,           \* number of frames that passed the filter so far
    ocr_written,         \* frames whose OCR result the worker has written
    stored,              \* frames whose primary store (_store_frame) succeeded
    sqlite_row,          \* the SQLite row of each frame: "none" (no row, no write
                         \* tried), "failed" (no row: the placeholder write raised),
                         \* "pending" or "ocr"
    dropped,             \* frames whose OCR task was refused by the full queue
    queued_at_stop,      \* the tasks queued when stop_recording cleared the event
    frame_count,         \* start_recording's count of completed iterations
    scene,               \* the images capture() can return
    last_frame_image,    \* self.last_frame_image (<< >>: None)
    last_seen,           \* the image of the latest capture (<< >>: none or failed)
    prev_seen,           \* the image of the capture before that one
    last_kept,           \* the image of the latest frame the filter kept
    prev_kept,           \* the image of the kept frame before that one
    last_capture         \* how the latest capture ended: "none", "image", "failed"
                         \* (capture() returned nothing) or "raised"

recVars == <<use_ocr, running, ocr_thread_running, ocr_queue, unfinished_tasks, rec_pc,
             ocr_pc, stop_pc, frame, task, ncaptured, ocr_written, stored, sqlite_row,
             dropped, queued_at_stop, frame_count, scene, last_frame_image, last_seen,
             prev_seen, last_kept, prev_kept, last_capture>>

filterVars == <<scene, last_frame_image, last_seen, prev_seen, last_kept, prev_kept,
                last_capture>>

coreVars == <<buffer, buffer_lock, elapsed, stop_event, pc, frames_to_write, idx>>

logVars == <<taken, vec_log, sql_log>>

flushVars == <<vec_res, sql_raised>>

callVars == <<nadded, frame_data, overlapped, history, stop_seen, api_seen>>

bufVars == <<coreVars, logVars, flushVars, callVars>>

VARIABLES
    files,        \* the image files that exist, as <<second, microsecond>>
    req_pc,       \* position of each store_frame request
    req_ts,       \* ts of each request, as <<second, microsecond>>
    req_micro,    \* the microsecond of the request's current base_frame_id
    req_counter,  \* counter of the probing loop
    accepted      \* the frame_data handed to add_frame, in order

storeVars == <<files, req_pc, req_ts, req_micro, req_counter, accepted>>

VARIABLES
    query_pc,        \* position of the query_rag_with_time request
    explicit_start,  \* << >> for None, <<t>> for an instant
    explicit_end,
    llm_time_range,  \* << >> for None, or <<llm_start, llm_end>>
    dense_queries,   \* "original": [req.query]; "rewritten": the LLM's variants
    start_time,      \* the effective window
    end_time,
    bad_time,        \* req.start_time or req.end_time is not an ISO instant
    enable_hybrid,   \* req.enable_hybrid, or config.ENABLE_HYBRID when unset
    req_rerank,      \* req.enable_rerank: "unset", "on" or "off"
    config_rerank,   \* config.ENABLE_RERANK
    reranker_ready,  \* the global reranker is not None
    enable_rerank,   \* the resolved flag
    rewrite_res,     \* "none", or how rewrite_and_time ended: "ok" or "raise"
    dense_results,   \* the hits of _dense_search, in order
    sparse_results,  \* the hits of _sparse_search, in order
    frames,          \* the merged list
    unloadable,      \* the frame ids whose image is missing or does not open
    loaded_frames,
    frames_for_vlm,
    response,        \* "none"; the response returned: "answer", "no_results",
                     \* "no_images", "no_rerank"; or the exception raised:
                     \* "reranker_unavailable", "parse_failed", "search_failed",
                     \* "vlm_failed"
    resp_frames,     \* the frames of the response
    time_pool,       \* the optional instants requests and the LLM may name
    hit_pool         \* the frame ids the two indexes may return

queryVars == <<query_pc, explicit_start, explicit_end, llm_time_range, dense_queries,
               start_time, end_time, bad_time, enable_hybrid, req_rerank,
               config_rerank, reranker_ready, enable_rerank, rewrite_res,
               dense_results, sparse_results, frames, unloadable, loaded_frames,
               frames_for_vlm, response, resp_frames, time_pool, hit_pool>>

\* the request in progress, apart from its position
queryRequest == <<explicit_start, explicit_end, llm_time_range, dense_queries,
                  start_time, end_time, bad_time, enable_hybrid, req_rerank,
                  config_rerank, reranker_ready, enable_rerank, rewrite_res>>

\* what the retrieval steps of the request have produced
queryResults == <<dense_results, sparse_results, frames, unloadable, loaded_frames,
                  frames_for_vlm, response, resp_frames>>

queryPools == <<time_pool, hit_pool>>

\* what the batch buffer's threads leave alone
nonBufVars == <<recVars, storeVars, queryVars>>

\* what the recording worker's threads leave alone
nonRecVars == <<bufVars, storeVars, queryVars>>

\* what the store_frame requests leave alone
nonStoreVars == <<bufVars, recVars, queryVars>>

\* what the query requests leave alone
nonQueryVars == <<bufVars, recVars, storeVars>>

vars == <<bufVars, recVars, storeVars, queryVars>>

\* ------------------------------------------------------------------------
\* Helpers
\* ------------------------------------------------------------------------

Range(s) == {s[i] : i \in 1..Len(s)}

Min(a, b) == IF a <= b THEN a ELSE b

\* the positions inside _flush_buffer
InFlush == {"fl_lock", "fl_vec", "fl_sql", "fl_done"}

\* ------------------------------------------------------------------------
\* BatchWriteBuffer
\* ------------------------------------------------------------------------

\* the lock at the end of a `with self.buffer_lock:` block (lines 135, 145, 189)
LockAfterBlock(t) == NoThread

\* the lock when _flush_buffer leaves its `with self.buffer_lock:` block
\* (lines 145-150) and goes on to the writes of lines 155-183
LockAfterSwapHeld(t) == t

LockAfterSwap(t) == NoThread

\* add_frame, line 137, with > in place of >=
ShouldFlushAddStrict(buf) == Len(buf) > BatchSize

\* add_frame, line 137
ShouldFlushAdd(buf) == Len(buf) >= BatchSize

\* _periodic_flush, line 191, with "or" in place of "and"
TickerShouldFlushOr(el, buf) == el >= FlushInterval \/ Len(buf) > 0

\* _periodic_flush, line 191, waiting for a full batch as well
TickerShouldFlushFull(el, buf) == el >= FlushInterval /\ Len(buf) >= BatchSize

\* _periodic_flush, lines 190-191
TickerShouldFlush(el, buf) == el >= FlushInterval /\ Len(buf) > 0

\* _flush_buffer, line 149 left out
BufferAfterSwapKept(buf) == buf

\* _flush_buffer, line 149: self.buffer.clear()
BufferAfterSwap(buf) == << >>

\* _flush_buffer, line 150 moved above the emptiness test of line 146
ElapsedAfterFlushAlways(buf, el) == 0

\* _flush_buffer, lines 146-150: last_flush_time is reset only on a swap
ElapsedAfterFlush(buf, el) == IF buf = << >> THEN el ELSE 0

\* where _flush_buffer goes after store_frames_batch (lines 155-183): a raised
\* error leaves the outer try, past the loop over the secondary index
AfterVectorWrite(res) == IF res = "raise" THEN "fl_done" ELSE "fl_sql"

\* lines 167-181 with the try around the loop instead of inside it: an error
\* ends the loop
AfterSqliteWriteAbort(res, i) == IF res = "raise" THEN MaxFrames + 1 ELSE i + 1

\* the loop over frames_to_write (lines 167-181) after one store_frame_with_ocr
\* call: the error it may raise is caught inside the loop, which goes on
AfterSqliteWrite(res, i) == i + 1

\* where a thread continues when _flush_buffer returns
AfterFlush(t) ==
    IF t \in Adders THEN "idle"
    ELSE IF t = Ticker THEN "tk_loop"
    ELSE IF t = ApiThread THEN "idle"
    ELSE "done"

\* images, as sequences of grey levels; None
Images == {<<g>> : g \in 0..MaxGray}

NoImage == << >>

\* a screen that shows one of two images, far enough apart for the filter
SmallScene == {<<0>>, <<DiffThreshold>>}

\* RecordWorker after initialize_components (_init_ocr, lines 155-174: with OCR
\* in use the queue is created and the worker thread started) and the entry of
\* start_recording (line 267)
RecordingStarted(ocr) ==
    /\ use_ocr = ocr
    /\ last_frame_image = NoImage
    /\ last_seen = NoImage
    /\ prev_seen = NoImage
    /\ last_capture = "none"
    /\ last_kept = NoImage
    /\ prev_kept = NoImage
    /\ running = TRUE
    /\ ocr_thread_running = ocr
    /\ ocr_queue = << >>
    /\ unfinished_tasks = 0
    /\ rec_pc = "loop"
    /\ ocr_pc = IF ocr THEN "loop" ELSE "none"
    /\ stop_pc = "idle"
    /\ frame = 0
    /\ task = 0
    /\ ncaptured = 0
    /\ ocr_written = {}
    /\ stored = {}
    /\ sqlite_row = [f \in 1..MaxCaptures |-> "none"]
    /\ dropped = {}
    /\ queued_at_stop = {}
    /\ frame_count = 0

\* None, and the optional instants
None == << >>

OptTimes == {None} \cup {<<t>> : t \in 0..MaxTime}

\* no query in progress
QueryIdle ==
    /\ query_pc = "idle"
    /\ explicit_start = None
    /\ explicit_end = None
    /\ llm_time_range = None
    /\ dense_queries = "original"
    /\ start_time = None
    /\ end_time = None
    /\ bad_time = FALSE
    /\ enable_hybrid = FALSE
    /\ req_rerank = "unset"
    /\ config_rerank = FALSE
    /\ reranker_ready = FALSE
    /\ enable_rerank = FALSE
    /\ rewrite_res = "none"
    /\ dense_results = << >>
    /\ sparse_results = << >>
    /\ frames = << >>
    /\ unloadable = {}
    /\ loaded_frames = << >>
    /\ frames_for_vlm = << >>
    /\ response = "none"
    /\ resp_frames = << >>

\* frame ids of the hits: NoId is a hit without frame_id
NoId == 0

HitIds == NoId..MaxHitId

\* no query in progress; requests name any instant, the indexes hold one frame
InitQuery ==
    /\ QueryIdle
    /\ time_pool = OptTimes
    /\ hit_pool = {1}

\* store_frame requests
Requests == {"r1", "r2"}

\* no image file yet, no request in progress
InitStore ==
    /\ files = {}
    /\ req_pc = [r \in Requests |-> "idle"]
    /\ req_ts = [r \in Requests |-> <<0, 0>>]
    /\ req_micro = [r \in Requests |-> 0]
    /\ req_counter = [r \in Requests |-> 0]
    /\ accepted = << >>

\* the state after _init_all_components: the buffer constructed (lines 124-131)
\* and its ticker thread started (lines 197-203)
InitBuffer ==
    /\ buffer = << >>
    /\ buffer_lock = NoThread
    /\ elapsed = 0
    /\ stop_event = FALSE
    /\ pc = [t \in Threads |-> IF t = Ticker THEN "tk_loop" ELSE "idle"]
    /\ frames_to_write = [t \in Threads |-> << >>]
    /\ idx = [t \in Threads |-> 0]
    /\ nadded = 0
    /\ taken = [f \in Frames |-> 0]
    /\ vec_log = [f \in Frames |-> 0]
    /\ sql_log = [f \in Frames |-> 0]
    /\ vec_res = [t \in Threads |-> "none"]
    /\ sql_raised = [t \in Threads |-> FALSE]
    /\ frame_data = [t \in Adders |-> 0]
    /\ overlapped = [t \in Adders |-> FALSE]
    /\ stop_seen = -1
    /\ api_seen = -1

Init ==
    /\ InitBuffer
    /\ history = FALSE
    /\ RecordingStarted(TRUE)
    /\ scene = SmallScene
    /\ InitStore
    /\ InitQuery

\* the same state, in a behaviour that keeps the call snapshots
InitHistory ==
    /\ InitBuffer
    /\ history = TRUE
    /\ RecordingStarted(TRUE)
    /\ scene = SmallScene
    /\ InitStore
    /\ InitQuery

\* time passes
Tick ==
    /\ elapsed < FlushInterval
    /\ elapsed' = elapsed + 1
    /\ UNCHANGED <<buffer, buffer_lock, stop_event, pc, frames_to_write, idx>>
    /\ UNCHANGED <<logVars, flushVars, callVars>>
    /\ UNCHANGED nonBufVars

\* add_frame, lines 135-141: under the lock append and decide, then flush or return
AddFrame(t) ==
    /\ t \in Adders
    /\ pc[t] = "idle"
    /\ buffer_lock = NoThread
    /\ nadded < MaxFrames
    /\ LET buf == Append(buffer, nadded + 1)
           should_flush == ShouldFlushAdd(buf)
       IN /\ buffer' = buf
          /\ nadded' = nadded + 1
          /\ frame_data' = [frame_data EXCEPT ![t] = IF should_flush THEN nadded + 1 ELSE 0]
          /\ overlapped' = [u \in Adders |->
                               IF u = t THEN should_flush /\ \E v \in Adders : pc[v] \in InFlush
                               ELSE overlapped[u] \/ pc[u] \in InFlush]
          /\ pc' = [pc EXCEPT ![t] = IF should_flush THEN "fl_lock" ELSE "idle"]
    /\ buffer_lock' = LockAfterBlock(t)
    /\ UNCHANGED <<elapsed, stop_event, frames_to_write, idx>>
    /\ UNCHANGED <<logVars, flushVars, history, stop_seen, api_seen>>
    /\ UNCHANGED nonBufVars

\* _flush_buffer, lines 145-153: under the lock return on an empty buffer, else
\* swap it out
FlushSwap(t) ==
    /\ pc[t] = "fl_lock"
    /\ buffer_lock = NoThread
    /\ buffer_lock' = LockAfterSwap(t)
    /\ elapsed' = ElapsedAfterFlush(buffer, elapsed)
    /\ IF buffer = << >>
       THEN /\ pc' = [pc EXCEPT ![t] = "fl_done"]
            /\ UNCHANGED <<buffer, frames_to_write, taken>>
       ELSE /\ frames_to_write' = [frames_to_write EXCEPT ![t] = buffer]
            /\ buffer' = BufferAfterSwap(buffer)
            /\ taken' = [f \in Frames |->
                            IF f \in Range(buffer) THEN taken[f] + 1 ELSE taken[f]]
            /\ pc' = [pc EXCEPT ![t] = "fl_vec"]
    /\ UNCHANGED <<stop_event, idx, vec_log, sql_log>>
    /\ UNCHANGED <<flushVars, callVars>>
    /\ UNCHANGED nonBufVars

\* _flush_buffer, lines 158-163 and 182-183: the shared buffer after
\* store_frames_batch returned or raised: a failure is logged and nothing is
\* put back
BufferAfterVectorWriteRequeue(buf, batch, res) == IF res = "ok" THEN buf ELSE batch \o buf

BufferAfterVectorWrite(buf, batch, res) == buf

\* _flush_buffer, lines 155-163: the one store_frames_batch call of the flush;
\* it returns True ("ok") or False ("fail"), or raises
VectorWrite(t) ==
    /\ pc[t] = "fl_vec"
    /\ \E res \in {"ok", "fail", "raise"} :
          /\ vec_res' = [vec_res EXCEPT ![t] = res]
          /\ pc' = [pc EXCEPT ![t] = AfterVectorWrite(res)]
          /\ buffer' = BufferAfterVectorWrite(buffer, frames_to_write[t], res)
    /\ vec_log' = [f \in Frames |->
                      IF f \in Range(frames_to_write[t]) THEN vec_log[f] + 1 ELSE vec_log[f]]
    /\ idx' = [idx EXCEPT ![t] = 1]
    /\ UNCHANGED <<buffer_lock, elapsed, stop_event, frames_to_write>>
    /\ UNCHANGED <<taken, sql_log, sql_raised, callVars>>
    /\ UNCHANGED nonBufVars

\* _flush_buffer, lines 166-181: one store_frame_with_ocr call of the loop;
\* an error it raises is caught inside the loop
SqliteWrite(t) ==
    /\ pc[t] = "fl_sql"
    /\ idx[t] <= Len(frames_to_write[t])
    /\ sql_log' = [sql_log EXCEPT ![frames_to_write[t][idx[t]]] = @ + 1]
    /\ \E res \in {"ok", "raise"} :
          /\ sql_raised' = [sql_raised EXCEPT ![t] = @ \/ res = "raise"]
          /\ idx' = [idx EXCEPT ![t] = AfterSqliteWrite(res, @)]
          /\ pc' = [pc EXCEPT ![t] =
                       IF AfterSqliteWrite(res, idx[t]) > Len(frames_to_write[t])
                       THEN "fl_done" ELSE "fl_sql"]
    /\ UNCHANGED <<buffer, buffer_lock, elapsed, stop_event, frames_to_write>>
    /\ UNCHANGED <<taken, vec_log, vec_res, callVars>>
    /\ UNCHANGED nonBufVars

\* _flush_buffer returns to its caller
FlushReturn(t) ==
    /\ pc[t] = "fl_done"
    /\ pc' = [pc EXCEPT ![t] = AfterFlush(t)]
    /\ frames_to_write' = [frames_to_write EXCEPT ![t] = << >>]
    /\ idx' = [idx EXCEPT ![t] = 0]
    /\ vec_res' = [vec_res EXCEPT ![t] = "none"]
    /\ sql_raised' = [sql_raised EXCEPT ![t] = FALSE]
    /\ frame_data' = [u \in Adders |-> IF u = t THEN 0 ELSE frame_data[u]]
    /\ overlapped' = [u \in Adders |-> IF u = t THEN FALSE ELSE overlapped[u]]
    /\ stop_seen' = IF t = Stopper THEN -1 ELSE stop_seen
    /\ api_seen' = IF t = ApiThread THEN -1 ELSE api_seen
    /\ UNCHANGED <<buffer, buffer_lock, elapsed, stop_event>>
    /\ UNCHANGED <<logVars, nadded, history>>
    /\ UNCHANGED nonBufVars

\* _periodic_flush, lines 187-188: test stop_event, then sleep one second
TickerWake ==
    /\ pc[Ticker] = "tk_loop"
    /\ IF stop_event
       THEN /\ pc' = [pc EXCEPT ![Ticker] = "tk_exit"]
            /\ UNCHANGED elapsed
       ELSE /\ pc' = [pc EXCEPT ![Ticker] = "tk_lock"]
            /\ elapsed' = Min(elapsed + 1, FlushInterval)
    /\ UNCHANGED <<buffer, buffer_lock, stop_event, frames_to_write, idx>>
    /\ UNCHANGED <<logVars, flushVars, callVars>>
    /\ UNCHANGED nonBufVars

\* _periodic_flush, lines 189-195: decide under the lock, then flush or loop
TickerCheck ==
    /\ pc[Ticker] = "tk_lock"
    /\ buffer_lock = NoThread
    /\ buffer_lock' = LockAfterBlock(Ticker)
    /\ LET should_flush == TickerShouldFlush(elapsed, buffer)
       IN pc' = [pc EXCEPT ![Ticker] = IF should_flush THEN "fl_lock" ELSE "tk_loop"]
    /\ UNCHANGED <<buffer, elapsed, stop_event, frames_to_write, idx>>
    /\ UNCHANGED <<logVars, flushVars, callVars>>
    /\ UNCHANGED nonBufVars

\* stop_recording_api, lines 1119-1121: call _flush_buffer
ApiFlush ==
    /\ pc[ApiThread] = "idle"
    /\ api_seen' = IF history THEN nadded ELSE -1
    /\ pc' = [pc EXCEPT ![ApiThread] = "fl_lock"]
    /\ UNCHANGED <<buffer, buffer_lock, elapsed, stop_event, frames_to_write, idx>>
    /\ UNCHANGED <<logVars, flushVars, nadded, frame_data, overlapped, history, stop_seen>>
    /\ UNCHANGED nonBufVars

\* stop, line 207: set stop_event
StopSet ==
    /\ pc[Stopper] = "idle"
    /\ stop_event' = TRUE
    /\ stop_seen' = IF history THEN nadded ELSE -1
    /\ pc' = [pc EXCEPT ![Stopper] = "st_join"]
    /\ UNCHANGED <<buffer, buffer_lock, elapsed, frames_to_write, idx>>
    /\ UNCHANGED <<logVars, flushVars, nadded, frame_data, overlapped, history, api_seen>>
    /\ UNCHANGED nonBufVars

\* stop, lines 208-211: join(timeout=5) ends when the ticker thread has ended or
\* when the five seconds are over, and _flush_buffer is called next
StopJoin ==
    /\ pc[Stopper] = "st_join"
    /\ \E timed_out \in BOOLEAN : timed_out \/ pc[Ticker] = "tk_exit"
    /\ pc' = [pc EXCEPT ![Stopper] = "fl_lock"]
    /\ UNCHANGED <<buffer, buffer_lock, elapsed, stop_event, frames_to_write, idx>>
    /\ UNCHANGED <<logVars, flushVars, callVars>>
    /\ UNCHANGED nonBufVars

\* the steps of _flush_buffer, whoever runs it
Flush(t) ==
    \/ FlushSwap(t)
    \/ VectorWrite(t)
    \/ SqliteWrite(t)
    \/ FlushReturn(t)

\* store_frame requests and the ticker only
NextTrig ==
    \/ Tick
    \/ \E t \in Adders : AddFrame(t)
    \/ TickerWake
    \/ TickerCheck
    \/ \E t \in Adders \cup {Ticker} : Flush(t)

Next ==
    \/ Tick
    \/ \E t \in Adders : AddFrame(t)
    \/ TickerWake
    \/ TickerCheck
    \/ ApiFlush
    \/ StopSet
    \/ StopJoin
    \/ \E t \in Threads : Flush(t)

Spec == Init /\ [][Next]_vars

SpecTrig == Init /\ [][NextTrig]_vars


\* store_frame requests, the ticker and stop_recording_api
NextApi ==
    \/ NextTrig
    \/ ApiFlush
    \/ Flush(ApiThread)

\* store_frame requests, the ticker and shutdown_event
NextStop ==
    \/ NextTrig
    \/ StopSet
    \/ StopJoin
    \/ Flush(Stopper)

SpecApi == InitHistory /\ [][NextApi]_vars

SpecStop == InitHistory /\ [][NextStop]_vars

\* the ticker thread keeps running, time keeps passing, and the calls the
\* ticker makes return
TickerFairness ==
    /\ WF_vars(Tick)
    /\ WF_vars(TickerWake)
    /\ WF_vars(TickerCheck)
    /\ WF_vars(Flush(Ticker))

SpecLive == Init /\ [][NextTrig]_vars /\ TickerFairness

\* ------------------------------------------------------------------------
\* RecordWorker (local mode): capture loop, OCR worker, stop_recording
\* ------------------------------------------------------------------------

\* start_recording, line 273: the loop test
RecLoop ==
    /\ rec_pc = "loop"
    /\ rec_pc' = IF running THEN "capture" ELSE "stopped"
    /\ UNCHANGED <<use_ocr, running, ocr_thread_running, ocr_queue, unfinished_tasks,
                   ocr_pc, stop_pc, frame, task, ncaptured, ocr_written>>
    /\ UNCHANGED <<stored, sqlite_row, dropped, queued_at_stop>>
    /\ UNCHANGED frame_count
    /\ UNCHANGED filterVars
    /\ UNCHANGED nonRecVars

RECURSIVE SumSquaredDiff(_, _)
\* the sum over the pixels of the squared difference of two grey images
SumSquaredDiff(a, b) ==
    IF a = << >> THEN 0
    ELSE (Head(a) - Head(b)) * (Head(a) - Head(b)) + SumSquaredDiff(Tail(a), Tail(b))

\* calculate_normalized_rms_diff(a, b) >= threshold: the root of the mean
\* squared pixel difference, as a fraction of the largest pixel value, reaches
\* the threshold
DiffReachesThreshold(a, b) ==
    SumSquaredDiff(a, b) >= DiffThreshold * DiffThreshold * Len(a)

\* _should_keep_frame, lines 213-225: the value returned
ShouldKeep(last, image) ==
    IF last = NoImage THEN TRUE ELSE DiffReachesThreshold(last, image)

\* _should_keep_frame, lines 215-224: self.last_frame_image afterwards
BaselineAfterSeen(last, image) == image

BaselineAfter(last, image) == IF ShouldKeep(last, image) THEN image ELSE last

\* start_recording, lines 276-292: capture and filter; a failed capture and a
\* filtered frame go to the pacing sleep, a kept frame gets its frame_id
RecCapture ==
    /\ rec_pc = "capture"
    /\ ncaptured < MaxCaptures
    /\ prev_seen' = last_seen
    /\ \E image \in scene \cup {NoImage} :
          IF image = NoImage
          THEN /\ rec_pc' = "sleep"
               /\ last_seen' = NoImage
               /\ last_capture' = IF history THEN "failed" ELSE "none"
               /\ UNCHANGED <<frame, ncaptured, last_frame_image, last_kept, prev_kept>>
          ELSE /\ last_frame_image' = BaselineAfter(last_frame_image, image)
               /\ last_seen' = IF history THEN image ELSE NoImage
               /\ last_capture' = IF history THEN "image" ELSE "none"
               /\ IF ShouldKeep(last_frame_image, image)
                  THEN /\ frame' = ncaptured + 1
                       /\ ncaptured' = ncaptured + 1
                       /\ rec_pc' = "store"
                       /\ last_kept' = IF history THEN image ELSE NoImage
                       /\ prev_kept' = IF history THEN last_kept ELSE NoImage
                  ELSE /\ rec_pc' = "sleep"
                       /\ UNCHANGED <<frame, ncaptured, last_kept, prev_kept>>
    /\ UNCHANGED <<use_ocr, running, ocr_thread_running, ocr_queue, unfinished_tasks,
                   ocr_pc, stop_pc, task, ocr_written>>
    /\ UNCHANGED <<stored, sqlite_row, dropped, queued_at_stop>>
    /\ UNCHANGED <<frame_count, scene>>
    /\ UNCHANGED nonRecVars

\* start_recording, lines 274-292: capturer.capture(), _should_keep_frame or
\* _generate_frame_id raises, and control goes to the handler of line 364
RecRaise ==
    /\ rec_pc = "capture"
    /\ ncaptured < MaxCaptures
    /\ rec_pc' = "except"
    /\ last_capture' = IF history THEN "raised" ELSE "none"
    /\ prev_seen' = last_seen
    /\ last_seen' = NoImage
    /\ UNCHANGED <<use_ocr, running, ocr_thread_running, ocr_queue, unfinished_tasks,
                   ocr_pc, stop_pc, frame, task, ncaptured, ocr_written>>
    /\ UNCHANGED <<stored, sqlite_row, dropped, queued_at_stop>>
    /\ UNCHANGED <<frame_count, scene, last_frame_image, last_kept, prev_kept>>
    /\ UNCHANGED nonRecVars

\* start_recording, lines 364-367: where the loop is after an exception of
\* the iteration was logged and signalled
AfterIterationErrorFatal == "stopped"

AfterIterationErrorNoSleep == "loop"

AfterIterationError == "sleep"

\* start_recording, lines 364-367: except Exception logs, emits error_signal
\* and goes to the pacing sleep
RecExcept ==
    /\ rec_pc = "except"
    /\ rec_pc' = AfterIterationError
    /\ UNCHANGED <<use_ocr, running, ocr_thread_running, ocr_queue, unfinished_tasks,
                   ocr_pc, stop_pc, frame, task, ncaptured, ocr_written>>
    /\ UNCHANGED <<stored, sqlite_row, dropped, queued_at_stop>>
    /\ UNCHANGED frame_count
    /\ UNCHANGED filterVars
    /\ UNCHANGED nonRecVars

\* start_recording, lines 333-338: a failed store ends the iteration
AfterStoreIgnored(success) == "sqlite"

AfterStoreSkipPlaceholder(success) == IF success THEN "enqueue" ELSE "sleep"

AfterStore(success) == IF success THEN "sqlite" ELSE "sleep"

\* start_recording, lines 326-338 and 364-367: _store_frame returns True, or
\* returns False or raises, and then the iteration ends with the pacing sleep
RecStore ==
    /\ rec_pc = "store"
    /\ \E success \in BOOLEAN :
          /\ stored' = IF success THEN stored \cup {frame} ELSE stored
          /\ rec_pc' = AfterStore(success)
          /\ frame' = IF AfterStore(success) = "sleep" THEN 0 ELSE frame
    /\ UNCHANGED <<use_ocr, running, ocr_thread_running, ocr_queue, unfinished_tasks,
                   ocr_pc, stop_pc, task, ncaptured, ocr_written>>
    /\ UNCHANGED <<sqlite_row, dropped, queued_at_stop>>
    /\ UNCHANGED frame_count
    /\ UNCHANGED filterVars
    /\ UNCHANGED nonRecVars

\* _store_to_sqlite, lines 392-408: store_frame_with_ocr writes the row with
\* ocr_engine="pending", or it raises, the except clause logs a warning and
\* no row is written
RowAfterPlaceholder(res) == IF res = "ok" THEN "pending" ELSE "failed"

\* start_recording, line 341, and _store_to_sqlite, lines 392-408: the row is
\* written with ocr_engine="pending", or the write raises and is only logged
RecSqlite ==
    /\ rec_pc = "sqlite"
    /\ \E res \in {"ok", "raise"} :
          sqlite_row' = [sqlite_row EXCEPT ![frame] = RowAfterPlaceholder(res)]
    /\ rec_pc' = "enqueue"
    /\ UNCHANGED <<use_ocr, running, ocr_thread_running, ocr_queue, unfinished_tasks,
                   ocr_pc, stop_pc, frame, task, ncaptured, ocr_written>>
    /\ UNCHANGED <<stored, dropped, queued_at_stop>>
    /\ UNCHANGED frame_count
    /\ UNCHANGED filterVars
    /\ UNCHANGED nonRecVars

\* Queue.put(task, block=False) of line 251 raises queue.Full when the queue
\* holds maxsize tasks
QueueFullNever(q) == FALSE

QueueFull(q) == Len(q) >= OcrQueueMax

\* _enqueue_ocr_task, lines 251-253: the queue after put(task, block=False);
\* queue.Full is caught and the task is not queued
QueueAfterPutEvict(q, f) == IF QueueFull(q) THEN Append(Tail(q), f) ELSE Append(q, f)

QueueAfterPut(q, f) == IF QueueFull(q) THEN q ELSE Append(q, f)

\* start_recording, lines 344-345, and _enqueue_ocr_task, lines 238-255:
\* without OCR nothing is queued; building the task (image.copy()) may raise,
\* which is logged; put(task, block=False) appends, or raises queue.Full, which
\* is logged; in every case the call returns normally and the iteration goes
\* on to frame_count += 1 (line 347) and the pacing sleep (line 362)
RecEnqueue ==
    /\ rec_pc = "enqueue"
    /\ \E task_built \in BOOLEAN :
          IF use_ocr /\ task_built
          THEN /\ ocr_queue' = QueueAfterPut(ocr_queue, frame)
               /\ IF QueueFull(ocr_queue)
                  THEN /\ dropped' = dropped \cup {frame}
                       /\ UNCHANGED unfinished_tasks
                  ELSE /\ unfinished_tasks' = unfinished_tasks + 1
                       /\ UNCHANGED dropped
          ELSE UNCHANGED <<ocr_queue, unfinished_tasks, dropped>>
    /\ rec_pc' = "sleep"
    /\ frame' = 0
    /\ frame_count' = frame_count + 1
    /\ UNCHANGED <<use_ocr, running, ocr_thread_running, ocr_pc, stop_pc, task, ncaptured,
                   ocr_written>>
    /\ UNCHANGED <<stored, sqlite_row, queued_at_stop>>
    /\ UNCHANGED filterVars
    /\ UNCHANGED nonRecVars

\* start_recording, lines 279, 285, 337, 362: the pacing sleep
RecSleep ==
    /\ rec_pc = "sleep"
    /\ rec_pc' = "loop"
    /\ UNCHANGED <<use_ocr, running, ocr_thread_running, ocr_queue, unfinished_tasks,
                   ocr_pc, stop_pc, frame, task, ncaptured, ocr_written>>
    /\ UNCHANGED <<stored, sqlite_row, dropped, queued_at_stop>>
    /\ UNCHANGED frame_count
    /\ UNCHANGED filterVars
    /\ UNCHANGED nonRecVars

\* _ocr_worker, line 178: the loop test
OcrLoop ==
    /\ ocr_pc = "loop"
    /\ ocr_pc' = IF ocr_thread_running THEN "get" ELSE "exited"
    /\ UNCHANGED <<use_ocr, running, ocr_thread_running, ocr_queue, unfinished_tasks,
                   rec_pc, stop_pc, frame, task, ncaptured, ocr_written>>
    /\ UNCHANGED <<stored, sqlite_row, dropped, queued_at_stop>>
    /\ UNCHANGED frame_count
    /\ UNCHANGED filterVars
    /\ UNCHANGED nonRecVars

\* _ocr_worker, lines 180 and 208-209: get(timeout=1.0) takes the head of the
\* queue, or raises queue.Empty after the second and the loop goes on
OcrGet ==
    /\ ocr_pc = "get"
    /\ IF ocr_queue # << >>
       THEN /\ task' = Head(ocr_queue)
            /\ ocr_queue' = Tail(ocr_queue)
            /\ ocr_pc' = "recognize"
       ELSE /\ ocr_pc' = "loop"
            /\ UNCHANGED <<task, ocr_queue>>
    /\ UNCHANGED <<use_ocr, running, ocr_thread_running, unfinished_tasks, rec_pc,
                   stop_pc, frame, ncaptured, ocr_written>>
    /\ UNCHANGED <<stored, sqlite_row, dropped, queued_at_stop>>
    /\ UNCHANGED frame_count
    /\ UNCHANGED filterVars
    /\ UNCHANGED nonRecVars

\* _ocr_worker, lines 210-211: where the worker is after `except Exception`
\* has logged the error of a task
AfterOcrErrorExit == "exited"

AfterOcrError == "loop"

\* _ocr_worker, lines 187 and 210-211: recognize returns, or raises and the
\* handler of line 210 goes back to the loop test
OcrRecognize ==
    /\ ocr_pc = "recognize"
    /\ \E res \in {"ok", "raise"} :
          IF res = "ok"
          THEN /\ ocr_pc' = "store"
               /\ UNCHANGED task
          ELSE /\ ocr_pc' = AfterOcrError
               /\ task' = 0
    /\ UNCHANGED <<use_ocr, running, ocr_thread_running, ocr_queue, unfinished_tasks,
                   rec_pc, stop_pc, frame, ncaptured, ocr_written>>
    /\ UNCHANGED <<stored, sqlite_row, dropped, queued_at_stop>>
    /\ UNCHANGED frame_count
    /\ UNCHANGED filterVars
    /\ UNCHANGED nonRecVars

\* _ocr_worker, lines 189-211: store_frame_with_ocr returns and task_done()
\* follows, or it raises and the handler of line 210 goes back to the loop test
OcrStore ==
    /\ ocr_pc = "store"
    /\ \E res \in {"ok", "raise"} :
          IF res = "ok"
          THEN /\ ocr_written' = ocr_written \cup {task}
               /\ sqlite_row' = [sqlite_row EXCEPT ![task] = "ocr"]
               /\ unfinished_tasks' = unfinished_tasks - 1
               /\ ocr_pc' = "loop"
          ELSE /\ ocr_pc' = AfterOcrError
               /\ UNCHANGED <<ocr_written, sqlite_row, unfinished_tasks>>
    /\ task' = 0
    /\ UNCHANGED <<use_ocr, running, ocr_thread_running, ocr_queue, rec_pc, stop_pc,
                   frame, ncaptured>>
    /\ UNCHANGED <<stored, dropped, queued_at_stop>>
    /\ UNCHANGED frame_count
    /\ UNCHANGED filterVars
    /\ UNCHANGED nonRecVars

\* stop_recording, lines 444-449: clear running, and with OCR in use clear
\* ocr_thread_running
StopRecording ==
    /\ stop_pc = "idle"
    /\ running' = FALSE
    /\ ocr_thread_running' = IF use_ocr THEN FALSE ELSE ocr_thread_running
    /\ stop_pc' = IF use_ocr THEN "check" ELSE "returned"
    /\ queued_at_stop' = IF use_ocr THEN Range(ocr_queue) ELSE queued_at_stop
    /\ UNCHANGED <<use_ocr, ocr_queue, unfinished_tasks, rec_pc, ocr_pc, frame, task,
                   ncaptured, ocr_written>>
    /\ UNCHANGED <<stored, sqlite_row, dropped>>
    /\ UNCHANGED frame_count
    /\ UNCHANGED filterVars
    /\ UNCHANGED nonRecVars

\* stop_recording, line 450: if not self.ocr_queue.empty()
StopCheckQueue ==
    /\ stop_pc = "check"
    /\ stop_pc' = IF ocr_queue # << >> THEN "queue_join" ELSE "thread_join"
    /\ UNCHANGED <<use_ocr, running, ocr_thread_running, ocr_queue, unfinished_tasks,
                   rec_pc, ocr_pc, frame, task, ncaptured, ocr_written>>
    /\ UNCHANGED <<stored, sqlite_row, dropped, queued_at_stop>>
    /\ UNCHANGED frame_count
    /\ UNCHANGED filterVars
    /\ UNCHANGED nonRecVars

\* stop_recording, line 452: ocr_queue.join() returns once no task is unfinished
StopQueueJoin ==
    /\ stop_pc = "queue_join"
    /\ unfinished_tasks = 0
    /\ stop_pc' = "thread_join"
    /\ UNCHANGED <<use_ocr, running, ocr_thread_running, ocr_queue, unfinished_tasks,
                   rec_pc, ocr_pc, frame, task, ncaptured, ocr_written>>
    /\ UNCHANGED <<stored, sqlite_row, dropped, queued_at_stop>>
    /\ UNCHANGED frame_count
    /\ UNCHANGED filterVars
    /\ UNCHANGED nonRecVars

\* stop_recording, lines 453-455: ocr_thread.join(timeout=5.0) ends when the
\* worker has ended or the five seconds are over, then stop_recording returns
StopThreadJoin ==
    /\ stop_pc = "thread_join"
    /\ \E timed_out \in BOOLEAN : timed_out \/ ocr_pc = "exited"
    /\ stop_pc' = "returned"
    /\ UNCHANGED <<use_ocr, running, ocr_thread_running, ocr_queue, unfinished_tasks,
                   rec_pc, ocr_pc, frame, task, ncaptured, ocr_written>>
    /\ UNCHANGED <<stored, sqlite_row, dropped, queued_at_stop>>
    /\ UNCHANGED frame_count
    /\ UNCHANGED filterVars
    /\ UNCHANGED nonRecVars

\* the capture loop
Recorder ==
    \/ RecLoop
    \/ RecCapture
    \/ RecRaise
    \/ RecExcept
    \/ RecStore
    \/ RecSqlite
    \/ RecEnqueue
    \/ RecSleep

\* the OCR worker thread
OcrWorker == OcrLoop \/ OcrGet \/ OcrRecognize \/ OcrStore

\* the thread calling stop_recording
StopCaller == StopRecording \/ StopCheckQueue \/ StopQueueJoin \/ StopThreadJoin

NextRec ==
    \/ RecLoop
    \/ RecCapture
    \/ RecRaise
    \/ RecExcept
    \/ RecStore
    \/ RecSqlite
    \/ RecEnqueue
    \/ RecSleep
    \/ OcrLoop
    \/ OcrGet
    \/ OcrRecognize
    \/ OcrStore
    \/ StopRecording
    \/ StopCheckQueue
    \/ StopQueueJoin
    \/ StopThreadJoin

\* the recording worker with or without OCR, the batch buffer at rest
InitRec ==
    /\ InitBuffer
    /\ history = FALSE
    /\ \E ocr \in BOOLEAN : RecordingStarted(ocr)
    /\ scene = SmallScene
    /\ InitStore
    /\ InitQuery

\* the three threads are scheduled, and the calls they make return; a thread
\* blocked in ocr_queue.join() moves only when the queue lets it
RecFairness ==
    /\ WF_vars(Recorder)
    /\ WF_vars(OcrWorker)
    /\ WF_vars(StopCaller)

SpecRec == InitRec /\ [][NextRec]_vars

SpecRecFair == InitRec /\ [][NextRec]_vars /\ RecFairness

\* the capture loop alone, without OCR, in front of a screen that can show
\* every image; stop_recording may end it
NextFilter ==
    \/ RecLoop
    \/ RecCapture
    \/ RecRaise
    \/ RecExcept
    \/ RecStore
    \/ RecSqlite
    \/ RecEnqueue
    \/ RecSleep
    \/ StopRecording

InitFilter ==
    /\ InitBuffer
    /\ history = TRUE
    /\ RecordingStarted(FALSE)
    /\ scene = Images
    /\ InitStore
    /\ InitQuery

SpecFilter == InitFilter /\ [][NextFilter]_vars

\* ------------------------------------------------------------------------
\* store_frame: the identifier and image path of a submitted frame
\* ------------------------------------------------------------------------

RECURSIVE DecimalDigits(_)
\* the decimal digits of n, most significant first
DecimalDigits(n) ==
    IF n < 10 THEN <<n>> ELSE Append(DecimalDigits(n \div 10), n % 10)

RECURSIVE PadLeft(_, _)
\* zero padding to at least w digits
PadLeft(d, w) == IF Len(d) >= w THEN d ELSE PadLeft(<<0>> \o d, w)

\* f"{microsecond:06d}" (lines 519, 530), with MicroWidth digits
FormatMicro(us) == PadLeft(DecimalDigits(us), MicroWidth)

\* strftime("%Y%m%d_%H%M%S_") (lines 519, 530): fixed width, one digit here
FormatSecond(sec) == <<sec>>

\* base_frame_id of lines 519 and 530
BaseFrameId(sec, us) == FormatSecond(sec) \o FormatMicro(us)

\* line 528: adjusted_microsecond = min(ts.microsecond + counter, 999999)
AdjustedMicrosecond(us, counter) == Min(us + counter, MaxMicrosecond)

RECURSIVE LexLess(_, _)
\* a < b for Python strings, as sequences of digits
LexLess(a, b) ==
    IF b = << >> THEN FALSE
    ELSE IF a = << >> THEN TRUE
    ELSE IF Head(a) # Head(b) THEN Head(a) < Head(b)
    ELSE LexLess(Tail(a), Tail(b))

\* ts <= ts2 for datetimes, as <<second, microsecond>>
TsLess(t1, t2) == t1[1] < t2[1] \/ (t1[1] = t2[1] /\ t1[2] < t2[2])

\* requests received and not yet answered
InProgress == {r \in Requests : req_pc[r] # "idle"}

\* store_frame, lines 500-521: the timestamp is parsed and the first
\* base_frame_id and image_path are built from it
StoreReceive(r) ==
    /\ req_pc[r] = "idle"
    /\ Len(accepted) + Cardinality(InProgress) < MaxStores
    /\ \E sec \in 0..MaxSecond, us \in 0..MaxMicrosecond :
          /\ req_ts' = [req_ts EXCEPT ![r] = <<sec, us>>]
          /\ req_micro' = [req_micro EXCEPT ![r] = us]
    /\ req_counter' = [req_counter EXCEPT ![r] = 0]
    /\ req_pc' = [req_pc EXCEPT ![r] = "exists"]
    /\ UNCHANGED <<files, accepted>>
    /\ UNCHANGED nonStoreVars

\* store_frame, lines 501-505: req.timestamp is not an ISO instant;
\* fromisoformat raises, the handler logs and raises again
StoreReject(r) ==
    /\ req_pc[r] = "idle"
    /\ req_pc' = [req_pc EXCEPT ![r] = "rejected"]
    /\ UNCHANGED <<files, req_ts, req_micro, req_counter, accepted>>
    /\ UNCHANGED nonStoreVars

\* the HTTP status of a store_frame request: an exception that leaves the
\* handler is answered with 500, a returned response with 200
StoreStatusCode(position) == IF position = "rejected" THEN 500 ELSE 200

\* the exception of a rejected request has left the handler
StoreRaise(r) ==
    /\ req_pc[r] = "rejected"
    /\ req_pc' = [req_pc EXCEPT ![r] = "idle"]
    /\ UNCHANGED <<files, req_ts, req_micro, req_counter, accepted>>
    /\ UNCHANGED nonStoreVars

\* store_frame, lines 524-525: if image_path.exists(): counter = 1
StoreExists(r) ==
    /\ req_pc[r] = "exists"
    /\ IF BaseFrameId(req_ts[r][1], req_micro[r]) \in files
       THEN /\ req_counter' = [req_counter EXCEPT ![r] = 1]
            /\ req_pc' = [req_pc EXCEPT ![r] = "probe"]
       ELSE /\ req_pc' = [req_pc EXCEPT ![r] = "save"]
            /\ UNCHANGED req_counter
    /\ UNCHANGED <<files, req_ts, req_micro, accepted>>
    /\ UNCHANGED nonStoreVars

\* store_frame, lines 526-533: one test of `while image_path.exists()` and,
\* when the file exists, one pass of the loop body.  Once ts.microsecond +
\* counter has passed the cap the candidate no longer depends on counter,
\* which is kept at MaxMicrosecond + 1 from there on.
StoreProbe(r) ==
    /\ req_pc[r] = "probe"
    /\ IF BaseFrameId(req_ts[r][1], req_micro[r]) \in files
       THEN /\ req_micro' = [req_micro EXCEPT
                   ![r] = AdjustedMicrosecond(req_ts[r][2], req_counter[r])]
            /\ req_counter' = [req_counter EXCEPT
                   ![r] = Min(req_counter[r] + 1, MaxMicrosecond + 1)]
            /\ UNCHANGED req_pc
       ELSE /\ req_pc' = [req_pc EXCEPT ![r] = "save"]
            /\ UNCHANGED <<req_micro, req_counter>>
    /\ UNCHANGED <<files, req_ts, accepted>>
    /\ UNCHANGED nonStoreVars

\* store_frame, lines 535-576: the image file is written and frame_data, with
\* frame_id = base_frame_id, the timestamp ts as received and the image path,
\* is handed to add_frame
StoreSave(r) ==
    /\ req_pc[r] = "save"
    /\ files' = files \cup {BaseFrameId(req_ts[r][1], req_micro[r])}
    /\ accepted' = Append(accepted,
                          [frame_id |-> BaseFrameId(req_ts[r][1], req_micro[r]),
                           timestamp |-> req_ts[r],
                           image_path |-> BaseFrameId(req_ts[r][1], req_micro[r]),
                           microsecond |-> req_micro[r]])
    /\ req_pc' = [req_pc EXCEPT ![r] = "idle"]
    /\ UNCHANGED <<req_ts, req_micro, req_counter>>
    /\ UNCHANGED nonStoreVars

\* one request
StoreFrame(r) ==
    \/ StoreReceive(r)
    \/ StoreReject(r)
    \/ StoreRaise(r)
    \/ StoreExists(r)
    \/ StoreProbe(r)
    \/ StoreSave(r)

\* requests handled one after another: a request is received only when no
\* other is in progress
NextStoreSeq ==
    \E r \in Requests :
       \/ InProgress = {} /\ StoreReceive(r)
       \/ InProgress = {} /\ StoreReject(r)
       \/ StoreRaise(r)
       \/ StoreExists(r)
       \/ StoreProbe(r)
       \/ StoreSave(r)

\* the backend at rest, store_frame requests arriving
InitStoreSpec ==
    /\ InitBuffer
    /\ history = FALSE
    /\ RecordingStarted(TRUE)
    /\ scene = SmallScene
    /\ InitStore
    /\ InitQuery

\* a request thread that can take a step takes it
StoreFairness ==
    \A r \in Requests :
       WF_vars(StoreExists(r) \/ StoreProbe(r) \/ StoreSave(r) \/ StoreRaise(r))

SpecStoreSeq == InitStoreSpec /\ [][NextStoreSeq]_vars

\* requests handled in parallel by the threads of the server, their steps
\* interleaved
NextStore == \E r \in Requests : StoreFrame(r)

SpecStore == InitStoreSpec /\ [][NextStore]_vars

SpecStoreSeqFair == InitStoreSpec /\ [][NextStoreSeq]_vars /\ StoreFairness

\* ------------------------------------------------------------------------
\* query_rag_with_time: the effective time window
\* ------------------------------------------------------------------------

\* max and min of two datetimes
LaterOf(a, b) == IF a[1] >= b[1] THEN a ELSE b

EarlierOf(a, b) == IF a[1] <= b[1] THEN a ELSE b

\* lines 644-649: the start of the window after the first if-chain, start_time
\* being explicit_start before it
FusedStartEarliest(es, ls) ==
    IF es # None /\ ls # None THEN EarlierOf(es, ls)
    ELSE IF es # None THEN es
    ELSE IF ls # None THEN ls
    ELSE es

FusedStart(es, ls) ==
    IF es # None /\ ls # None THEN LaterOf(es, ls)
    ELSE IF es # None THEN es
    ELSE IF ls # None THEN ls
    ELSE es

\* lines 652-657: the end of the window after the second if-chain
FusedEndLatest(ee, le) ==
    IF ee # None /\ le # None THEN LaterOf(ee, le)
    ELSE IF ee # None THEN ee
    ELSE IF le # None THEN le
    ELSE ee

FusedEnd(ee, le) ==
    IF ee # None /\ le # None THEN EarlierOf(ee, le)
    ELSE IF ee # None THEN ee
    ELSE IF le # None THEN le
    ELSE ee

\* lines 659-665: start_time and end_time exist and start_time > end_time
Inverted(st, en) == st # None /\ en # None /\ st[1] > en[1]

\* lines 661-665: the window used when the combined one is inverted
FallbackWindowInferred(es, ee, llm) == <<llm[1], llm[2]>>

FallbackWindow(es, ee, llm) ==
    IF es # None \/ ee # None THEN <<es, ee>> ELSE <<llm[1], llm[2]>>

\* lines 605-665: <<start_time, end_time>> of the search
EffectiveWindow(es, ee, llm) ==
    IF llm = None THEN <<es, ee>>
    ELSE LET st == FusedStart(es, llm[1])
             en == FusedEnd(ee, llm[2])
         IN  IF Inverted(st, en)
             THEN FallbackWindow(es, ee, llm)
             ELSE <<st, en>>

\* lines 591-592: a flag of the request, or the configured default when the
\* request leaves it unset
EnableRerankRequestOnly(req, cfg) == req = "on"

EnableRerank(req, cfg) == IF req = "unset" THEN cfg ELSE req = "on"

\* the HTTP status of an outcome: an HTTPException carries its own status, an
\* exception that leaves the handler is answered with 500, a returned
\* response with 200
StatusCode(resp) ==
    IF resp \in {"reranker_unavailable", "parse_failed", "search_failed", "vlm_failed"}
    THEN 500 ELSE 200

\* lines 585-607: the flags are resolved, a rerank without reranker is
\* refused, the explicit bounds of the request are parsed, and the window
\* starts as the explicit window
QueryReceive ==
    /\ query_pc = "idle"
    /\ \E hybrid \in BOOLEAN, rr \in {"unset", "on", "off"}, cfg \in BOOLEAN,
          ready \in BOOLEAN, bad \in BOOLEAN, es \in time_pool, ee \in time_pool :
          /\ enable_hybrid' = hybrid
          /\ req_rerank' = rr
          /\ config_rerank' = cfg
          /\ reranker_ready' = ready
          /\ enable_rerank' = EnableRerank(rr, cfg)
          /\ bad_time' = bad
          /\ IF EnableRerank(rr, cfg) /\ ~ready
             THEN /\ response' = "reranker_unavailable"
                  /\ query_pc' = "done"
                  /\ UNCHANGED <<explicit_start, explicit_end, start_time, end_time>>
             ELSE IF bad
             THEN /\ response' = "parse_failed"
                  /\ query_pc' = "done"
                  /\ UNCHANGED <<explicit_start, explicit_end, start_time, end_time>>
             ELSE /\ explicit_start' = es
                  /\ explicit_end' = ee
                  /\ start_time' = es
                  /\ end_time' = ee
                  /\ query_pc' = "rewrite"
                  /\ UNCHANGED response
    /\ UNCHANGED <<llm_time_range, dense_queries, rewrite_res>>
    /\ UNCHANGED <<dense_results, sparse_results, frames, unloadable, loaded_frames,
                   frames_for_vlm, resp_frames>>
    /\ UNCHANGED queryPools
    /\ UNCHANGED nonQueryVars

\* lines 623-631: what the handler keeps of the outcome of rewrite_and_time
RangeAfterRewriteKept(res, range) == range

RangeAfterRewrite(res, range) == IF res = "ok" THEN range ELSE None

QueriesAfterRewrite(res, enable_rewrite) ==
    IF res = "ok" /\ enable_rewrite THEN "rewritten" ELSE "original"

\* lines 612-631: rewrite_and_time returns queries and a time range (None or
\* a pair of optional instants), the queries being used when
\* ENABLE_LLM_REWRITE is set; or it raises, and the original query and no
\* time range are used
QueryRewrite ==
    /\ query_pc = "rewrite"
    /\ \E res \in {"ok", "raise"}, enable_rewrite \in BOOLEAN,
          range \in {None} \cup (time_pool \X time_pool) :
          /\ rewrite_res' = res
          /\ llm_time_range' = RangeAfterRewrite(res, range)
          /\ dense_queries' = QueriesAfterRewrite(res, enable_rewrite)
    /\ query_pc' = "fuse"
    /\ UNCHANGED <<explicit_start, explicit_end, start_time, end_time, bad_time,
                   enable_hybrid, req_rerank, config_rerank, reranker_ready,
                   enable_rerank>>
    /\ UNCHANGED <<queryResults, queryPools>>
    /\ UNCHANGED nonQueryVars

\* lines 633-665: the explicit and the inferred window are combined
QueryFuse ==
    /\ query_pc = "fuse"
    /\ start_time' = EffectiveWindow(explicit_start, explicit_end, llm_time_range)[1]
    /\ end_time' = EffectiveWindow(explicit_start, explicit_end, llm_time_range)[2]
    /\ query_pc' = "search"
    /\ UNCHANGED <<explicit_start, explicit_end, llm_time_range, dense_queries,
                   bad_time, enable_hybrid, req_rerank, config_rerank,
                   reranker_ready, enable_rerank, rewrite_res>>
    /\ UNCHANGED <<queryResults, queryPools>>
    /\ UNCHANGED nonQueryVars

\* the sequences over S of length at most n
SeqsUpTo(S, n) == UNION {[1..k -> S] : k \in 0..n}

\* the row an index holds for a frame id: the frame of id i was taken at
\* instant i
DenseHit(i) == [frame_id |-> i, timestamp |-> i, from_sparse |-> FALSE]

\* lines 706-714: the frame built from a row of the full-text index
SparseHit(i) == [frame_id |-> i, timestamp |-> i, from_sparse |-> TRUE]

\* filter_by_time: the rows whose timestamp is inside the window, a missing
\* bound not restricting
InWindow(t, st, en) == (st = None \/ st[1] <= t) /\ (en = None \/ t <= en[1])

FilterByTime(res, st, en) == SelectSeq(res, LAMBDA r : InWindow(r.timestamp, st, en))

\* line 700: the rows of the full-text search that _sparse_search keeps
SparseFilteredNever(res, st, en) == res

SparseFiltered(res, st, en) ==
    IF st # None \/ en # None THEN FilterByTime(res, st, en) ELSE res

\* lines 694-717: the hits of the sparse pass for the rows the full-text
\* index returned
SparseSearch(hybrid, res, st, en) ==
    IF ~hybrid THEN << >>
    ELSE SelectSeq(SparseFiltered(res, st, en), LAMBDA r : r.frame_id # NoId)

\* lines 725-735: one merge loop, from the list and the seen set so far
RECURSIVE MergeLoopAll(_, _, _)
MergeLoopAll(results, merged, seen) ==
    IF results = << >> THEN <<merged, seen>>
    ELSE LET r == Head(results)
         IN  IF r.frame_id = NoId
             THEN MergeLoopAll(Tail(results), merged, seen)
             ELSE MergeLoopAll(Tail(results), Append(merged, r),
                               seen \cup {r.frame_id})

RECURSIVE MergeLoop(_, _, _)
MergeLoop(results, merged, seen) ==
    IF results = << >> THEN <<merged, seen>>
    ELSE LET r == Head(results)
         IN  IF r.frame_id = NoId \/ r.frame_id \in seen
             THEN MergeLoop(Tail(results), merged, seen)
             ELSE MergeLoop(Tail(results), Append(merged, r),
                            seen \cup {r.frame_id})

\* lines 722-735: the dense hits, then the sparse hits
MergeSparseFirst(dense, sparse) ==
    LET first == MergeLoop(sparse, << >>, {})
    IN  MergeLoop(dense, first[1], first[2])[1]

Merge(dense, sparse) ==
    LET first == MergeLoop(dense, << >>, {})
    IN  MergeLoop(sparse, first[1], first[2])[1]

\* lines 737-738: the outcome when nothing was retrieved
EmptyOutcomeAnswer == "answer"

EmptyOutcome == "no_results"

\* lines 667-738: the dense and the sparse pass run, their hits are merged,
\* and an empty list ends the request; or a pass raises
QuerySearch ==
    /\ query_pc = "search"
    /\ \/ \E dense \in SeqsUpTo(hit_pool, MaxHits), rows \in SeqsUpTo(hit_pool, MaxHits) :
             LET d == [k \in DOMAIN dense |-> DenseHit(dense[k])]
                 s == SparseSearch(enable_hybrid,
                                   [k \in DOMAIN rows |-> SparseHit(rows[k])],
                                   start_time, end_time)
             IN  /\ dense_results' = d
                 /\ sparse_results' = s
                 /\ frames' = Merge(d, s)
                 /\ IF Merge(d, s) = << >>
                    THEN /\ response' = EmptyOutcome
                         /\ query_pc' = "done"
                    ELSE /\ query_pc' = "load"
                         /\ UNCHANGED response
       \/ /\ response' = "search_failed"
          /\ query_pc' = "done"
          /\ UNCHANGED <<dense_results, sparse_results, frames>>
    /\ UNCHANGED <<unloadable, loaded_frames, frames_for_vlm, resp_frames>>
    /\ UNCHANGED <<queryRequest, queryPools>>
    /\ UNCHANGED nonQueryVars

\* lines 742-751: the merged frames that have a path and whose image opens
LoadedAll(merged, failing) == merged

Loaded(merged, failing) == SelectSeq(merged, LAMBDA f : f.frame_id \notin failing)

\* lines 740-754: the images are loaded; nothing loaded ends the request
QueryLoad ==
    /\ query_pc = "load"
    /\ \E failing \in SUBSET {frames[k].frame_id : k \in DOMAIN frames} :
          /\ unloadable' = failing
          /\ loaded_frames' = Loaded(frames, failing)
          /\ IF Loaded(frames, failing) = << >>
             THEN /\ response' = "no_images"
                  /\ query_pc' = "done"
             ELSE /\ query_pc' = "rerank"
                  /\ UNCHANGED response
    /\ UNCHANGED <<dense_results, sparse_results, frames, frames_for_vlm, resp_frames>>
    /\ UNCHANGED <<queryRequest, queryPools>>
    /\ UNCHANGED nonQueryVars

\* lines 756-765: the reranker returns a subset of the loaded frames; an
\* empty one ends the request; without rerank the loaded frames go on
QueryRerank ==
    /\ query_pc = "rerank"
    /\ IF enable_rerank
       THEN \E chosen \in SUBSET {loaded_frames[k].frame_id : k \in DOMAIN loaded_frames} :
               LET ranked == SelectSeq(loaded_frames, LAMBDA f : f.frame_id \in chosen)
               IN  /\ frames_for_vlm' = ranked
                   /\ IF ranked = << >>
                      THEN /\ response' = "no_rerank"
                           /\ query_pc' = "done"
                      ELSE /\ query_pc' = "vlm"
                           /\ UNCHANGED response
       ELSE /\ frames_for_vlm' = loaded_frames
            /\ query_pc' = "vlm"
            /\ UNCHANGED response
    /\ UNCHANGED <<dense_results, sparse_results, frames, unloadable, loaded_frames,
                   resp_frames>>
    /\ UNCHANGED <<queryRequest, queryPools>>
    /\ UNCHANGED nonQueryVars

\* lines 767-800: the VLM answers over the frames and the response carries
\* them; or the call raises
QueryVlm ==
    /\ query_pc = "vlm"
    /\ \/ /\ response' = "answer"
          /\ resp_frames' = frames_for_vlm
       \/ /\ response' = "vlm_failed"
          /\ UNCHANGED resp_frames
    /\ query_pc' = "done"
    /\ UNCHANGED <<dense_results, sparse_results, frames, unloadable, loaded_frames,
                   frames_for_vlm>>
    /\ UNCHANGED <<queryRequest, queryPools>>
    /\ UNCHANGED nonQueryVars

\* the response has been sent: the handler's locals are gone
QueryReturn ==
    /\ query_pc = "done"
    /\ query_pc' = "idle"
    /\ explicit_start' = None
    /\ explicit_end' = None
    /\ llm_time_range' = None
    /\ dense_queries' = "original"
    /\ start_time' = None
    /\ end_time' = None
    /\ bad_time' = FALSE
    /\ enable_hybrid' = FALSE
    /\ req_rerank' = "unset"
    /\ config_rerank' = FALSE
    /\ reranker_ready' = FALSE
    /\ enable_rerank' = FALSE
    /\ rewrite_res' = "none"
    /\ dense_results' = << >>
    /\ sparse_results' = << >>
    /\ frames' = << >>
    /\ unloadable' = {}
    /\ loaded_frames' = << >>
    /\ frames_for_vlm' = << >>
    /\ response' = "none"
    /\ resp_frames' = << >>
    /\ UNCHANGED queryPools
    /\ UNCHANGED nonQueryVars

NextQuery ==
    \/ QueryReceive
    \/ QueryRewrite
    \/ QueryFuse
    \/ QuerySearch
    \/ QueryLoad
    \/ QueryRerank
    \/ QueryVlm
    \/ QueryReturn

\* the backend at rest, queries arriving
InitQuerySpec ==
    /\ InitBuffer
    /\ history = FALSE
    /\ RecordingStarted(TRUE)
    /\ scene = SmallScene
    /\ InitStore
    /\ InitQuery

SpecQuery == InitQuerySpec /\ [][NextQuery]_vars

\* the instants of the merge study
FewTimes == {None, <<2>>}

\* the backend at rest, queries over few instants and all the frame ids
InitMergeSpec ==
    /\ InitBuffer
    /\ history = FALSE
    /\ RecordingStarted(TRUE)
    /\ scene = SmallScene
    /\ InitStore
    /\ QueryIdle
    /\ time_pool = FewTimes
    /\ hit_pool = HitIds

SpecMerge == InitMergeSpec /\ [][NextQuery]_vars

\* ------------------------------------------------------------------------
\* Properties of the batch write buffer
\* ------------------------------------------------------------------------

Batch(t) == Range(frames_to_write[t])

\* C1: every frame accepted by add_frame is in the buffer or in exactly one
\* flush batch, never in both and never in neither; no frame is placed in two
\* batches, and none is written twice to either backend.
C1_EachFrameInOneBatch ==
    /\ \A f \in Frames :
          /\ taken[f] <= 1
          /\ vec_log[f] <= 1
          /\ sql_log[f] <= 1
          /\ Cardinality({t \in Threads : f \in Batch(t)}) <= 1
          /\ Cardinality({i \in 1..Len(buffer) : buffer[i] = f}) <= 1
          /\ (f \in Range(buffer)) <=> (f <= nadded /\ taken[f] = 0)
    /\ \A t \in Threads : \A f \in Batch(t) : taken[f] = 1

\* C1 witness: two flush cycles hold batches at the same time while stop() runs
C1_Witness ==
    /\ pc[Stopper] \in InFlush
    /\ \E t, u \in Threads : t # u /\ Batch(t) # {} /\ Batch(u) # {}

\* the step in which thread t runs the lock block of _flush_buffer
SwapStep(t) == pc[t] = "fl_lock" /\ pc'[t] # "fl_lock"

\* the step in which thread t decides to flush
DecideStep(t) == pc[t] \notin InFlush /\ pc'[t] = "fl_lock"

\* C2 as stated: an add_frame call that brings the buffer to batch_size goes on
\* to _flush_buffer, and when it returns with no other add_frame call having
\* run during it, the buffer is empty and its own flush has handed the whole
\* batch (at least batch_size frames, its own frame among them) to the
\* vector-index write.
C2_AddFlushesOwnBatch ==
    \A t \in Adders :
       (pc[t] = "fl_done" /\ ~overlapped[t]) =>
          /\ buffer = << >>
          /\ frame_data[t] \in Batch(t)
          /\ Len(frames_to_write[t]) >= BatchSize
          /\ \A f \in Batch(t) : vec_log[f] = 1

\* C2 amended: an add_frame call that brings the buffer to batch_size or more
\* always goes on to _flush_buffer (and a call that does not, returns at once);
\* when it returns with no other add_frame call having run during it, the
\* buffer is empty and
\* its frame is in exactly one flush batch: the batch of this call, which then
\* holds at least batch_size frames and has been handed to the vector-index
\* write, or the batch of another flush that swapped the buffer out first, in
\* which case this call wrote nothing.
C2_AddFlushesOrFindsFlushed ==
    /\ [][nadded' = nadded + 1 =>
            (Len(buffer') >= BatchSize <=>
                \E t \in Adders : /\ pc[t] = "idle"
                                  /\ pc'[t] = "fl_lock"
                                  /\ frame_data'[t] = nadded')]_vars
    /\ [](\A t \in Adders :
            (pc[t] = "fl_done" /\ ~overlapped[t]) =>
               /\ buffer = << >>
               /\ taken[frame_data[t]] = 1
               /\ \/ frames_to_write[t] = << >>
                  \/ /\ frame_data[t] \in Batch(t)
                     /\ Len(frames_to_write[t]) >= BatchSize
                     /\ \A f \in Batch(t) : vec_log[f] = 1)

\* C2 witness: an add_frame call is about to return from the flush of its own
\* full batch, no other add_frame call having run during it
C2_Witness ==
    \E t \in Adders :
       /\ pc[t] = "fl_done"
       /\ ~overlapped[t]
       /\ frame_data[t] \in Batch(t)
       /\ Len(frames_to_write[t]) >= BatchSize

\* C3 as stated: whenever a flush swaps a non-empty batch out of the buffer,
\* the buffer holds at least batch_size frames or flush_interval has elapsed
\* since the last flush.
C3_SwapOnlyUnderCondition ==
    [][\A t \in Threads :
          (SwapStep(t) /\ buffer # << >>)
             => (Len(buffer) >= BatchSize \/ elapsed >= FlushInterval)]_vars

\* C3 amended: frames leave the buffer only in the lock block of a flush, and
\* a thread starts a flush only on a decision taken under the lock when the
\* buffer, with the frame just appended, held at least batch_size frames
\* (add_frame) or flush_interval had elapsed and the buffer was non-empty
\* (ticker); the swap itself comes later and need not find the condition true.
C3_FlushDecidedUnderCondition ==
    [][/\ \A t \in Adders : DecideStep(t) => Len(buffer') >= BatchSize
       /\ DecideStep(Ticker) => (elapsed >= FlushInterval /\ Len(buffer) > 0)
       /\ (\E f \in Range(buffer) : f \notin Range(buffer'))
             => \E t \in Threads : SwapStep(t) /\ frames_to_write'[t] = buffer]_vars

\* C3 witness: the ticker has swapped out a batch smaller than batch_size
C3_Witness ==
    /\ pc[Ticker] = "fl_vec"
    /\ Len(frames_to_write[Ticker]) < BatchSize
    /\ Len(frames_to_write[Ticker]) > 0

\* C4: with the ticker thread running, every frame in the buffer is eventually
\* taken by a flush, whether or not another frame arrives, and a ticker check
\* that finds flush_interval elapsed and the buffer non-empty starts the flush.
C4_TickerFlushesEventually ==
    /\ \A f \in Frames : (f \in Range(buffer)) ~> (taken[f] = 1)
    /\ [][(pc[Ticker] = "tk_lock" /\ pc'[Ticker] # "tk_lock"
             /\ elapsed >= FlushInterval /\ buffer # << >>)
              => pc'[Ticker] = "fl_lock"]_vars

\* C4 witness: no further frame can arrive and the ticker has taken the last
\* frames, fewer than batch_size
C4_Witness ==
    /\ nadded = MaxFrames
    /\ pc[Ticker] = "fl_vec"
    /\ MaxFrames \in Batch(Ticker)
    /\ Len(frames_to_write[Ticker]) < BatchSize

\* C5 as stated: when stop() returns, every frame accepted before stop() was
\* called is out of the buffer and both of its backend writes were attempted.
C5_StopWritesEverything ==
    pc[Stopper] = "fl_done" =>
       \A f \in 1..stop_seen :
          f \notin Range(buffer) /\ vec_log[f] = 1 /\ sql_log[f] = 1

\* C6 as stated: when stop_recording_api returns, every frame added before the
\* request is out of the buffer and both of its backend writes were attempted.
C6_ApiFlushWritesEverything ==
    pc[ApiThread] = "fl_done" =>
       \A f \in 1..api_seen :
          f \notin Range(buffer) /\ vec_log[f] = 1 /\ sql_log[f] = 1

\* C7: the lock block of a flush always leaves the buffer empty, so a flush
\* that follows at once finds it empty; and a flush that finds the buffer
\* empty changes neither the buffer nor the time since the last flush, writes
\* to neither backend and returns.
C7_FlushIdempotent ==
    [][\A t \in Threads :
          /\ SwapStep(t) =>
                /\ buffer' = << >>
                /\ buffer = << >> =>
                      /\ pc'[t] = "fl_done"
                      /\ frames_to_write'[t] = << >>
                      /\ UNCHANGED <<buffer, elapsed, taken, vec_log, sql_log>>
          /\ (pc[t] = "fl_done" /\ pc'[t] # "fl_done" /\ frames_to_write[t] = << >>)
                => UNCHANGED <<buffer, elapsed, taken, vec_log, sql_log>>]_vars

\* C7 witness: stop_recording_api called when everything added so far had
\* already been flushed returns without a batch, some time after that flush
C7_Witness ==
    /\ pc[ApiThread] = "fl_done"
    /\ frames_to_write[ApiThread] = << >>
    /\ buffer = << >>
    /\ nadded > 0
    /\ elapsed > 0

\* C8 as stated: a flush whose store_frames_batch call returned False or
\* raised has attempted the secondary-index write of every frame of its batch
\* when it returns.
C8_SqliteAttemptedAfterVectorFailure ==
    \A t \in Threads :
       (pc[t] = "fl_done" /\ vec_res[t] \in {"fail", "raise"}) =>
          \A f \in Batch(t) : sql_log[f] = 1

\* C9: a flush issues exactly one store_frames_batch call for its batch, and a
\* flush in which a store_frame_with_ocr call raised has still made one such
\* call for every frame of its batch when it returns.
C9_SqliteFailureDoesNotAbort ==
    \A t \in Threads :
       (pc[t] = "fl_done" /\ frames_to_write[t] # << >>) =>
          /\ \A f \in Batch(t) : vec_log[f] = 1
          /\ sql_raised[t] => \A f \in Batch(t) : sql_log[f] = 1

\* C9 witness: a flush of at least two frames returns after a secondary-index
\* write of it raised
C9_Witness ==
    \E t \in Threads :
       /\ pc[t] = "fl_done"
       /\ Len(frames_to_write[t]) >= 2
       /\ sql_raised[t]

\* ------------------------------------------------------------------------
\* Properties of the recording worker
\* ------------------------------------------------------------------------

\* C10 as stated: whatever the OCR queue and the worker are doing when
\* stop_recording is called, the call eventually returns.
C10_StopRecordingReturns == (stop_pc # "idle") ~> (stop_pc = "returned")

\* C11 as stated: while stop_recording waits in ocr_queue.join(), the worker
\* is still there to take the tasks that were queued when stop_recording
\* cleared ocr_thread_running; it has not ended while one of them is queued.
C11_QueuedTasksStillTaken ==
    (stop_pc = "queue_join" /\ queued_at_stop \cap Range(ocr_queue) # {})
        => ocr_pc # "exited"

\* C12 as stated: once stop_recording has cleared ocr_thread_running, no task
\* is added to the OCR queue.
C12_NoTaskAcceptedAfterStop ==
    [][stop_pc # "idle" => Len(ocr_queue') <= Len(ocr_queue)]_vars

\* C13: the OCR queue never holds more than its capacity; a submission is
\* never blocked; and a submission made while the queue holds its capacity
\* returns normally to the capture loop (the iteration is counted and goes to
\* its pacing sleep) and leaves the queued tasks and the count of unfinished
\* tasks as they were.
C13_FullQueueRejects ==
    /\ [](Len(ocr_queue) <= OcrQueueMax)
    /\ [](rec_pc = "enqueue" => ENABLED RecEnqueue)
    /\ [][(rec_pc = "enqueue" /\ rec_pc' # "enqueue" /\ use_ocr
             /\ Len(ocr_queue) >= OcrQueueMax)
            => /\ ocr_queue' = ocr_queue
               /\ unfinished_tasks' = unfinished_tasks
               /\ frame_count' = frame_count + 1
               /\ rec_pc' = "sleep"]_vars

\* C13 witness: a submission has been refused while the queue held its
\* capacity, and the queue still holds it
C13_Witness ==
    /\ dropped # {}
    /\ Len(ocr_queue) = OcrQueueMax
    /\ rec_pc = "sleep"

C15_OcrWriteAfterStore ==
    /\ [](/\ Range(ocr_queue) \subseteq stored
          /\ task # 0 => task \in stored
          /\ ocr_written \subseteq stored
          /\ \A f \in 1..MaxCaptures : sqlite_row[f] = "ocr" => f \in ocr_written)
    /\ [][/\ \A f \in Range(ocr_queue') \ Range(ocr_queue) :
                f = frame /\ f \in stored /\ rec_pc = "enqueue"
          /\ (task' # 0 /\ task' # task) => (ocr_queue # << >> /\ task' = Head(ocr_queue))
          /\ \A f \in ocr_written' \ ocr_written : f = task /\ ocr_pc = "store"]_vars

\* C15 witness: the OCR result of an earlier frame is written while a later
\* frame has been captured and stored, and a frame whose store failed has none
C15_Witness ==
    /\ \E f \in ocr_written : \E g \in stored : g > f
    /\ \E f \in 1..ncaptured : f \notin stored /\ f # frame

\* ------------------------------------------------------------------------
\* Properties of store_frame
\* ------------------------------------------------------------------------

\* the identifiers handed out so far are pairwise distinct, image paths too,
\* and no microsecond component exceeds the cap
DistinctIdentifiers ==
    /\ \A i, j \in DOMAIN accepted :
          i # j => /\ accepted[i].frame_id # accepted[j].frame_id
                   /\ accepted[i].image_path # accepted[j].image_path
    /\ \A i \in DOMAIN accepted : accepted[i].microsecond <= MaxMicrosecond

\* C16 as stated: frames submitted one after another each get an identifier
\* (every request received is answered), the identifiers and image paths are
\* pairwise distinct, and their microsecond component is at most the cap.
C16_DistinctIdentifiers ==
    /\ []DistinctIdentifiers
    /\ \A r \in Requests : (req_pc[r] # "idle") ~> (req_pc[r] = "idle")

\* C17 as stated: the collision probe of every request ends, at an identifier
\* whose image file does not exist.
C17_ProbeTerminates ==
    \A r \in Requests :
       (req_pc[r] \in {"exists", "probe"})
          ~> (req_pc[r] = "save" /\ BaseFrameId(req_ts[r][1], req_micro[r]) \notin files)

C19_KeptIffDiffersFromLastKept ==
    /\ [](last_frame_image = last_kept)
    /\ [](prev_kept # NoImage => DiffReachesThreshold(prev_kept, last_kept))
    /\ [][(rec_pc = "capture" /\ rec_pc' # "capture" /\ last_seen' # NoImage)
            => /\ (rec_pc' = "store")
                     <=> (last_kept = NoImage \/ DiffReachesThreshold(last_kept, last_seen'))
               /\ rec_pc' # "store" => (rec_pc' = "sleep" /\ last_frame_image' = last_frame_image)
               /\ rec_pc' = "store" => last_frame_image' = last_seen']_vars

\* C19 witness: a frame has just been kept that is closer than the threshold
\* to the frame seen before it, which was dropped, and differs by the
\* threshold from the kept frame before
C19_Witness ==
    /\ rec_pc = "store"
    /\ last_kept = last_seen
    /\ prev_kept # NoImage
    /\ prev_seen # NoImage
    /\ prev_seen # prev_kept
    /\ ~DiffReachesThreshold(prev_kept, prev_seen)
    /\ ~DiffReachesThreshold(prev_seen, last_seen)

\* ------------------------------------------------------------------------
\* Properties of the time window of a query
\* ------------------------------------------------------------------------

\* the instant of an optional instant, as a set
Present(o) == IF o = None THEN {} ELSE {o[1]}

\* the starts and the ends that are present in the two windows
PresentStarts ==
    Present(explicit_start)
       \cup (IF llm_time_range = None THEN {} ELSE Present(llm_time_range[1]))

PresentEnds ==
    Present(explicit_end)
       \cup (IF llm_time_range = None THEN {} ELSE Present(llm_time_range[2]))

\* the intersection is not empty: no present start is after a present end
IntersectionNonEmpty == \A a \in PresentStarts, b \in PresentEnds : a <= b

\* C20: when the intersection of the explicit and the inferred window is not
\* empty, the effective start is the latest start present in either window
\* and the effective end the earliest end present, and a bound present in
\* neither window is absent from the effective window.
C20_EffectiveWindowIsIntersection ==
    (query_pc = "search" /\ IntersectionNonEmpty) =>
       /\ IF PresentStarts = {} THEN start_time = None
          ELSE /\ start_time # None
               /\ start_time[1] \in PresentStarts
               /\ \A a \in PresentStarts : a <= start_time[1]
       /\ IF PresentEnds = {} THEN end_time = None
          ELSE /\ end_time # None
               /\ end_time[1] \in PresentEnds
               /\ \A b \in PresentEnds : end_time[1] <= b

\* C20 witness: two overlapping windows, neither inside the other, have been
\* combined (explicit [0,2] with inferred [1,3] gives [1,2])
C20_Witness ==
    /\ query_pc = "search"
    /\ explicit_start = <<0>>
    /\ explicit_end = <<2>>
    /\ llm_time_range = <<(<<1>>), (<<3>>)>>
    /\ start_time = <<1>>
    /\ end_time = <<2>>

\* C21: when the intersection of the two windows is empty (a present start is
\* after a present end), the effective window is the explicit window exactly
\* as supplied if the request supplied a start or an end, and otherwise the
\* inferred window unchanged.
C21_EmptyIntersectionFallsBack ==
    (query_pc = "search" /\ ~IntersectionNonEmpty) =>
       IF explicit_start # None \/ explicit_end # None
       THEN start_time = explicit_start /\ end_time = explicit_end
       ELSE /\ llm_time_range # None
            /\ start_time = llm_time_range[1]
            /\ end_time = llm_time_range[2]

\* C21 witness: disjoint windows (explicit [0,1], inferred [2,3]) fell back to
\* the explicit one
C21_Witness ==
    /\ query_pc = "search"
    /\ explicit_start = <<0>>
    /\ explicit_end = <<1>>
    /\ llm_time_range = <<(<<2>>), (<<3>>)>>
    /\ start_time = <<0>>
    /\ end_time = <<1>>

\* C22: when rewrite_and_time raises, the request goes on to the fusion
\* with no response decided, the inferred window is absent, the effective
\* window is the explicit window exactly as supplied, and the queries of the
\* search are the original query text.
C22_RewriteFailureFallsBack ==
    rewrite_res = "raise" =>
       /\ query_pc \in {"fuse", "search", "load", "rerank", "vlm", "done"}
       /\ query_pc = "fuse" => response = "none"
       /\ llm_time_range = None
       /\ start_time = explicit_start
       /\ end_time = explicit_end
       /\ dense_queries = "original"

\* C22 witness: a request with explicit start 1 was answered over the window
\* from 1 although the rewrite raised
C22_Witness ==
    /\ rewrite_res = "raise"
    /\ query_pc = "done"
    /\ response = "answer"
    /\ explicit_start = <<1>>
    /\ explicit_end = None
    /\ start_time = <<1>>
    /\ end_time = None

\* the entries of s at the indexes of I, in order, from index k on
RECURSIVE PickFrom(_, _, _)
PickFrom(s, I, k) ==
    IF k > Len(s) THEN << >>
    ELSE (IF k \in I THEN <<s[k]>> ELSE << >>) \o PickFrom(s, I, k + 1)

FrameIdsOf(s) == {s[k].frame_id : k \in DOMAIN s}

\* s[k] has a frame_id that no earlier entry of s has
FirstOccurrence(s, k) ==
    /\ s[k].frame_id # NoId
    /\ \A j \in 1..(k - 1) : s[j].frame_id # s[k].frame_id

\* the dense and the sparse pass have returned
SearchCompleted ==
    \/ query_pc \in {"load", "rerank", "vlm"}
    \/ query_pc = "done" /\ response \in {"answer", "no_results", "no_images",
                                           "no_rerank", "vlm_failed"}

\* C23: after the merge no frame_id occurs twice in the merged list, whatever
\* the dense and the sparse hits, repeated frame_ids included.
C23_MergedIdsUnique ==
    \A i \in DOMAIN frames, j \in DOMAIN frames :
       frames[i].frame_id = frames[j].frame_id => i = j

\* C23 witness: the dense pass returned frame 1 twice and the sparse pass
\* returned it again; the merged list holds it once
C23_Witness ==
    /\ query_pc = "load"
    /\ Len(dense_results) = MaxHits
    /\ \A k \in DOMAIN dense_results : dense_results[k].frame_id = 1
    /\ Len(sparse_results) > 0
    /\ sparse_results[1].frame_id = 1
    /\ Len(frames) = 1

\* C24: the merged list is the dense hits that are the first occurrence of
\* their frame_id, in their order, followed by the sparse hits that are the
\* first occurrence of their frame_id and whose frame_id no dense hit has, in
\* their order; a frame_id in both lists keeps its dense entry.
C24_MergeIsDenseThenSparse ==
    SearchCompleted =>
       frames = PickFrom(dense_results,
                         {k \in DOMAIN dense_results : FirstOccurrence(dense_results, k)},
                         1)
                \o PickFrom(sparse_results,
                            {k \in DOMAIN sparse_results :
                                /\ FirstOccurrence(sparse_results, k)
                                /\ sparse_results[k].frame_id
                                      \notin FrameIdsOf(dense_results)},
                            1)

\* C24 witness: dense [1,2] and sparse [2,3] merged to [1,2,3], 2 being the
\* dense entry
C24_Witness ==
    /\ query_pc = "load"
    /\ dense_results = <<DenseHit(1), DenseHit(2)>>
    /\ sparse_results = <<SparseHit(2), SparseHit(3)>>
    /\ frames = <<DenseHit(1), DenseHit(2), SparseHit(3)>>

\* C25: without hybrid retrieval the merged list has no sparse hit, and when
\* the effective window has a start or an end every sparse hit of the merged
\* list has its timestamp inside the window.
C25_SparseOnlyHybridAndInWindow ==
    \A k \in DOMAIN frames :
       frames[k].from_sparse =>
          /\ enable_hybrid
          /\ (start_time # None \/ end_time # None) =>
                /\ start_time # None => start_time[1] <= frames[k].timestamp
                /\ end_time # None => frames[k].timestamp <= end_time[1]

\* C25 witness: a hybrid query over the window from 2 whose merged list holds
\* the sparse hit of instant 3
C25_Witness ==
    /\ query_pc = "load"
    /\ enable_hybrid
    /\ start_time = <<2>>
    /\ end_time = None
    /\ dense_results = << >>
    /\ frames = <<SparseHit(3)>>

\* C26: when the merged list is empty the request returns the no-results
\* response: status 200 and no frame, where an answer always carries frames
\* and a failed search has status 500.
C26_EmptyMergeIsNoResults ==
    query_pc = "done" =>
       /\ (SearchCompleted /\ frames = << >>) =>
             /\ response = "no_results"
             /\ StatusCode(response) = 200
             /\ resp_frames = << >>
       /\ response = "answer" => (StatusCode(response) = 200 /\ resp_frames # << >>)
       /\ response = "search_failed" => StatusCode(response) = 500

\* C26 witness: a search that returned nothing ended in the no-results
\* response
C26_Witness ==
    /\ query_pc = "done"
    /\ response = "no_results"
    /\ dense_results = << >>
    /\ sparse_results = << >>
    /\ frames = << >>

\* rerank is asked for by the request, or by the configuration when the
\* request leaves it unset
RerankRequested == req_rerank = "on" \/ (req_rerank = "unset" /\ config_rerank)

\* C27: a request that asks for rerank, itself or through the configured
\* default, while there is no reranker ends in the 500 of the missing
\* reranker, with no search run and no answer.
C27_RerankUnavailableIsServerError ==
    (query_pc # "idle" /\ RerankRequested /\ ~reranker_ready) =>
       /\ query_pc = "done"
       /\ response = "reranker_unavailable"
       /\ StatusCode(response) = 500
       /\ frames = << >>
       /\ resp_frames = << >>

\* C27 witness: the request left the flag unset, the configuration asks for
\* rerank and there is no reranker
C27_Witness ==
    /\ query_pc = "done"
    /\ req_rerank = "unset"
    /\ config_rerank
    /\ ~reranker_ready
    /\ response = "reranker_unavailable"

\* the image loading has run
LoadCompleted ==
    \/ query_pc \in {"rerank", "vlm"}
    \/ query_pc = "done" /\ response \in {"answer", "no_images", "no_rerank",
                                           "vlm_failed"}

\* C28: the loaded frames are exactly the merged frames whose image loaded, in
\* merged order; they are what the rerank gets and, without rerank, what the
\* answer is made from; a failed load does not end the request while a frame
\* is left.
C28_LoadedAreMergedThatLoad ==
    LoadCompleted =>
       /\ loaded_frames =
             PickFrom(frames,
                      {k \in DOMAIN frames : frames[k].frame_id \notin unloadable}, 1)
       /\ (query_pc = "vlm" /\ ~enable_rerank) => frames_for_vlm = loaded_frames
       /\ loaded_frames # << >> => response # "no_images"
       /\ query_pc = "rerank" => response = "none"

\* C28 witness: of the merged frames 1, 2, 3 the image of 2 did not load, and
\* 1, 3 go to the answer
C28_Witness ==
    /\ query_pc = "vlm"
    /\ frames = <<DenseHit(1), DenseHit(2), SparseHit(3)>>
    /\ unloadable = {2}
    /\ loaded_frames = <<DenseHit(1), SparseHit(3)>>
    /\ frames_for_vlm = loaded_frames

\* C29: a request whose time input does not parse is answered with a status
\* of the 4xx class, and nothing is stored and no search is run for it: the
\* start_time or end_time of a query (the reranker being available when
\* rerank is asked for), and the timestamp of a store_frame request.
C29_UnparsedTimeIsClientError ==
    /\ (query_pc = "done" /\ bad_time /\ ~(RerankRequested /\ ~reranker_ready)) =>
          /\ StatusCode(response) \in 400..499
          /\ dense_results = << >>
          /\ sparse_results = << >>
    /\ \A r \in Requests :
          req_pc[r] = "rejected" => StoreStatusCode(req_pc[r]) \in 400..499

InWrite == {"fl_vec", "fl_sql"}

\* C31: a thread that is making the vector-index write or a secondary-index
\* write of a flush does not hold buffer_lock, and the lock is free, so that
\* an add_frame call of an idle request thread can append at that moment.
C31_NoWriteUnderLock ==
    \A t \in Threads :
       pc[t] \in InWrite =>
          /\ buffer_lock # t
          /\ \A u \in Adders :
                (pc[u] = "idle" /\ nadded < MaxFrames) => ENABLED AddFrame(u)

\* C31 witness: while a1 is in the writes of its flush, a2 has appended a
\* frame to the buffer
C31_Witness ==
    /\ pc["a1"] \in InWrite
    /\ frames_to_write["a1"] # << >>
    /\ overlapped["a1"]
    /\ buffer # << >>

C33_ConcurrentIdsDistinct ==
    \A i, j \in DOMAIN accepted :
       (i # j /\ accepted[i].timestamp = accepted[j].timestamp)
          => /\ accepted[i].frame_id # accepted[j].frame_id
             /\ accepted[i].image_path # accepted[j].image_path

\* ------------------------------------------------------------------------
\* Properties of the OCR worker
\* ------------------------------------------------------------------------

\* C34 as stated: every task taken from the queue is marked done, so when the
\* queue is empty and the worker holds no task, the queue's count of
\* unfinished tasks is zero.
C34_TakenTasksMarkedDone ==
    (ocr_queue = << >> /\ ocr_pc \in {"loop", "get", "exited"}) => unfinished_tasks = 0

\* C35: an error of recognize or of the OCR write sends the worker back to
\* its loop test; the worker ends only from the loop test with
\* ocr_thread_running cleared; from the loop test with ocr_thread_running set
\* it goes to the queue, and what it takes there is the head of the queue.
C35_WorkerSurvivesTaskError ==
    [][/\ (ocr_pc \in {"recognize", "store"} /\ ocr_pc' # ocr_pc)
             => ocr_pc' \in {"store", "loop"}
       /\ (ocr_pc' = "exited" /\ ocr_pc # "exited")
             => (ocr_pc = "loop" /\ ~ocr_thread_running)
       /\ (ocr_pc = "loop" /\ ocr_pc' # "loop" /\ ocr_thread_running)
             => ocr_pc' = "get"
       /\ (ocr_pc = "get" /\ ocr_pc' # "get" /\ ocr_queue # << >>)
             => /\ ocr_pc' = "recognize"
                /\ task' = Head(ocr_queue)
                /\ ocr_queue' = Tail(ocr_queue)]_vars

\* C35 witness: an earlier task ended in an error (it was taken and never
\* marked done) and the worker, not stopped, is processing a later task
C35_Witness ==
    /\ ocr_thread_running
    /\ ocr_pc = "store"
    /\ task # 0
    /\ unfinished_tasks > Len(ocr_queue) + 1

\* ------------------------------------------------------------------------
\* Properties of the baseline of the frame filter
\* ------------------------------------------------------------------------

\* the frame whose image is self.last_frame_image: the latest frame the filter
\* kept, which got the latest frame number (0: no frame kept yet)
BaselineFrame == IF last_frame_image = NoImage THEN 0 ELSE ncaptured

\* C36 as stated: once the store of an iteration has returned, the frame
\* whose image is the baseline of the filter is a frame that was persisted.
C36_BaselineIsPersisted ==
    (rec_pc \in {"sleep", "loop", "capture"} /\ BaselineFrame # 0)
       => BaselineFrame \in stored

\* ------------------------------------------------------------------------
\* Properties of the effective window against the explicit window
\* ------------------------------------------------------------------------

\* C37: when the request supplies a start or an end and its window is not
\* inverted, the effective window stays inside it and is not inverted,
\* whatever the inferred window: the effective start exists and is not before
\* a supplied start, the effective end exists and is not after a supplied end,
\* and the effective start is not after the effective end.
C37_EffectiveInsideExplicit ==
    (/\ query_pc = "search"
     /\ explicit_start # None \/ explicit_end # None
     /\ ~Inverted(explicit_start, explicit_end))
       => /\ explicit_start # None
                => (start_time # None /\ start_time[1] >= explicit_start[1])
          /\ explicit_end # None
                => (end_time # None /\ end_time[1] <= explicit_end[1])
          /\ ~Inverted(start_time, end_time)

\* C37 witness: explicit [1,3] with the inverted inferred window [2,0] gives
\* [1,3]
C37_Witness ==
    /\ query_pc = "search"
    /\ explicit_start = <<1>>
    /\ explicit_end = <<3>>
    /\ llm_time_range = <<(<<2>>), (<<0>>)>>
    /\ start_time = <<1>>
    /\ end_time = <<3>>

\* ------------------------------------------------------------------------
\* Properties of the buffer after a flush
\* ------------------------------------------------------------------------

\* C38: the frames of a batch whose vector-index write failed are not in the
\* buffer and were handed to the vector index once; and a frame that was
\* handed to the vector index is never handed to it again and never comes
\* back into the buffer.
C38_FailedBatchNotRetried ==
    /\ [](\A t \in Threads :
            vec_res[t] \in {"fail", "raise"} =>
               \A f \in Batch(t) : f \notin Range(buffer) /\ vec_log[f] = 1)
    /\ [][\A f \in Frames :
             vec_log[f] >= 1 => (vec_log'[f] = vec_log[f] /\ f \notin Range(buffer'))]_vars

\* C38 witness: the vector-index write of the batch of a1 failed, and the
\* ticker has since flushed a later frame without the frames of that batch
C38_Witness ==
    /\ vec_res["a1"] = "fail"
    /\ pc["a1"] = "fl_done"
    /\ pc[Ticker] = "fl_sql"
    /\ frames_to_write[Ticker] = <<MaxFrames>>
    /\ \A f \in Batch("a1") : vec_log[f] = 1
    /\ Batch("a1") # {}

\* C39 as stated: the buffer never holds more than batch_size frames.
C39_BufferAtMostBatchSize == Len(buffer) <= BatchSize

\* the add_frame calls that have decided to flush and have not yet entered the
\* lock block of _flush_buffer
PendingFlushes == {t \in Adders : pc[t] = "fl_lock"}

\* C39 amended: the buffer holds fewer than batch_size frames, plus at most
\* one frame for each add_frame call that has decided to flush and has not yet
\* swapped the buffer out; so it holds more than batch_size frames only while
\* two or more such calls are on their way to the flush.
C39_BufferBoundedByPendingFlushes ==
    Len(buffer) <= BatchSize - 1 + Cardinality(PendingFlushes)

\* C39 witness: two add_frame calls have decided to flush, neither has swapped
\* yet, and the buffer holds batch_size + 1 frames
C39_Witness ==
    /\ Len(buffer) = BatchSize + 1
    /\ Cardinality(PendingFlushes) = 2


\* C40 as stated: whenever the OCR worker writes an OCR result for a frame, a
\* "pending" placeholder row of that frame was written before, also when the
\* placeholder write reported an error.
C40_OcrResultFindsPlaceholderRow ==
    [][\A f \in ocr_written' \ ocr_written : sqlite_row[f] = "pending"]_vars

\* C40: a frame enters the OCR queue only in the step after _store_to_sqlite
\* returned for it, so for every frame that is queued, in the worker's hands
\* or has an OCR result the placeholder write was tried before; the row was
\* written when that write returned normally, and when it raised there is no
\* row until the OCR result itself is written.
C40_PlaceholderTriedBeforeEnqueue ==
    /\ [](/\ \A f \in Range(ocr_queue) : sqlite_row[f] \in {"pending", "failed"}
          /\ task # 0 => sqlite_row[task] \in {"pending", "failed", "ocr"}
          /\ \A f \in ocr_written : sqlite_row[f] = "ocr")
    /\ [][/\ \A f \in Range(ocr_queue') \ Range(ocr_queue) :
                f = frame /\ rec_pc = "enqueue" /\ sqlite_row[f] \in {"pending", "failed"}
          /\ \A f \in ocr_written' \ ocr_written :
                sqlite_row[f] \in {"pending", "failed"}]_vars

\* C40 witness: the worker has recognised a frame whose placeholder write
\* raised and is about to write its OCR result
C40_Witness ==
    /\ ocr_pc = "store"
    /\ task # 0
    /\ sqlite_row[task] = "failed"

====
